---- MODULE Spec2Model ----
(***************************************************************************)
(* State-machine model of SubjectiveTranscribeLocalVideoDataSource:        *)
(* batch transcription (fetch), pipeline-triggered transcription           *)
(* (process_input), the single-item pipeline (_process_video_file) and the *)
(* directory-scan deduplication (_context_file_exists).                    *)
(***************************************************************************)
EXTENDS Integers, Sequences, FiniteSets, TLC

\* ------------------------------------------------------------------ bounds
\* Number of entry-point calls (fetch, process_input) one behaviour makes.
MaxOps == 2

\* Number of artifact files an external process drops into the output directory.
MaxExternal == 1

\* Largest size, in MiB, of the files whose fingerprints are compared.
MaxBlocks == 4

\* ------------------------------------------------------------------- paths
\* A path string is a record: directory part and file name; a relative path
\* has an empty directory part.
Path(d, n) == [dir |-> d, name |-> n]

NoPath == Path("", "")

Cwd == "/w"

isabs(p) == p.dir # ""

basename(p) == p.name

join(d, p) == Path(d, p.name)

\* str.endswith(('.mp4', '.mkv')): case-sensitive suffix test on the name.
Suffix(n) ==
  CASE n \in {"a.mp4", "c.mp4", "r.mp4", "u.mp4", "gone.mp4"} -> ".mp4"
    [] n \in {"b.mkv"} -> ".mkv"
    [] n \in {"E.MP4"} -> ".MP4"
    [] OTHER -> ".txt"

endswith_video(p) == Suffix(p.name) \in {".mp4", ".mkv"}

\* ------------------------------------------------------------- file system
\* The source videos never change.  Modification times are in tenths of a
\* second; contents are sequences of blocks of one MiB.
VideosDirNames == {"a.mp4", "b.mkv", "c.mp4"}

OtherDirNames == {"n.txt", "E.MP4"}

NoFile == [exists |-> FALSE, readable |-> FALSE, mtime |-> 0, data |-> <<>>]

RegularFile(m, d) == [exists |-> TRUE, readable |-> TRUE, mtime |-> m, data |-> d]

FileTable(p) ==
  CASE p = Path("/v", "a.mp4") -> RegularFile(20, <<1, 2>>)
    [] p = Path("/v", "b.mkv") -> RegularFile(25, <<3>>)
    [] p = Path("/v", "c.mp4") -> RegularFile(10, <<4, 5, 6>>)
    [] p = Path("/v", "n.txt") -> RegularFile(30, <<8>>)
    [] p = Path("/v", "E.MP4") -> RegularFile(31, <<9>>)
    [] p = Path("/w", "r.mp4") -> RegularFile(40, <<1, 2>>)
    [] p = Path("/w", "a.mp4") -> RegularFile(50, <<7>>)
    [] p = Path("/w", "x.txt") -> RegularFile(60, <<7>>)
    [] p = Path("/w", "u.mp4") -> [exists |-> TRUE, readable |-> FALSE, mtime |-> 70, data |-> <<>>]
    [] OTHER -> NoFile


\* ------------------------------------------------------------------- state
VARIABLES
  specific_video_path,  \* self.specific_video_path (NoPath when not configured)
  videos_dir,           \* self.videos_dir ("" when not configured)
  listing,              \* the video files present in the directory "/v"
  context,              \* the *.json files of self.context_dir: name -> content
  context_dir_exists,   \* whether self.context_dir exists
  whisper_model,        \* self.whisper_model: "None" or the loaded handle
  processed_count,      \* self.processed_count
  skipped_count,        \* self.skipped_count
  total_items,          \* progress counter set by set_total_items
  processed_items,      \* progress counter of increment_processed_items
  fetch_completed,      \* set_fetch_completed
  pc,                   \* "idle", or the position of the running fetch
  video_files,          \* fetch's local list of candidates
  idx,                  \* fetch's loop index (candidates handled so far)
  run,                  \* what the running or last fetch has done so far
  last,                 \* what the last step did and emitted
  persisted,            \* the videos whose artifact _write_context_output stored
  loads,                \* number of whisper.load_model calls that succeeded
  nops,                 \* entry-point calls made so far
  nexternal             \* files written by the external process so far

vars == <<specific_video_path, videos_dir, listing, context, context_dir_exists,
          whisper_model, processed_count, skipped_count, total_items,
          processed_items, fetch_completed, pc, video_files, idx, run, last,
          persisted, loads, nops, nexternal>>

\* -------------------------------------------------------- file system reads
Resolve(p) == IF isabs(p) THEN p ELSE Path(Cwd, p.name)

Stat(p) ==
  LET q == Resolve(p)
  IN IF q.dir = "/v" /\ q.name \in VideosDirNames /\ q.name \notin listing
       THEN NoFile
       ELSE FileTable(q)

\* os.path.exists
exists(p) == Stat(p).exists

\* os.path.getmtime
getmtime(p) == Stat(p).mtime

\* os.path.exists on a directory
DirExists(d) == d \in {"/v", "/w"}

\* os.listdir(self.videos_dir)
listdir(d) == IF d = "/v" THEN listing \cup OtherDirNames ELSE {}

\* ------------------------------------------------------------- fingerprint
\* One MiB of file content, the unit file sizes are counted in.
MiB == 1

NoHash == [ok |-> FALSE, digest |-> <<>>]

\* hashlib.md5(data).hexdigest(): a digest that differs whenever the data does.
md5(data) == [ok |-> TRUE, digest |-> data]

\* Faulty variant: the whole file is read whatever its size.
HashedData_WholeFile(content) == content

\* The bytes _get_video_hash reads from a file of the given content: all of
\* them up to 2 MiB, the first and the last MiB of a larger file.
HashedData(content) ==
  LET file_size == Len(content)
  IN IF file_size <= 2 * MiB
       THEN content
       ELSE SubSeq(content, 1, MiB) \o SubSeq(content, file_size - MiB + 1, file_size)

_get_video_hash(video_path) ==
  LET f == Stat(video_path)
  IN IF f.exists /\ f.readable THEN md5(HashedData(f.data)) ELSE NoHash

\* -------------------------------------------------------------- artifacts
\* A context file that json.load cannot read, or that holds no JSON object.
Corrupt == [valid |-> FALSE]

\* datetime.fromtimestamp(video_mtime).isoformat(): the recording time, as its
\* second (s) and the fraction of the second (f, in tenths).
video_recording_time(video_mtime) == [s |-> video_mtime \div 10, f |-> video_mtime % 10]

\* Faulty variant: the recording time is taken from the wall clock of the
\* running call, not from the video's modification time.
_build_transcript_payload_WallClock(transcript, video_path, now) ==
  [valid |-> TRUE,
   video_path |-> video_path,
   video_filename |-> basename(video_path),
   video_hash |-> _get_video_hash(video_path),
   video_mtime |-> getmtime(video_path),
   video_recording_time |-> [s |-> now[1], f |-> now[2]],
   transcription_time |-> now,
   transcription |-> transcript]

_build_transcript_payload(transcript, video_path, now) ==
  [valid |-> TRUE,
   video_path |-> video_path,
   video_filename |-> basename(video_path),
   video_hash |-> _get_video_hash(video_path),
   video_mtime |-> getmtime(video_path),
   video_recording_time |-> video_recording_time(getmtime(video_path)),
   transcription_time |-> now,
   transcription |-> transcript]

\* Name of the file the parent's context writer stores a payload under:
\* context-<YYYYMMDDHHMMSS>.json, from the video's recording time cut to the
\* second.
ContextFileName(payload) == [kind |-> "context", n |-> payload.video_recording_time.s]

\* The parent's _write_context_output: stores the payload under its file name,
\* replacing any file of that name.
_write_context_output(ctx, payload) == (ContextFileName(payload) :> payload) @@ ctx

\* ------------------------------------------------------------------- dedup
\* Faulty variant: the stored path is compared with the candidate's bare
\* filename, and the filename and fingerprint rules are missing.
_check_context_metadata_Mistyped(data, video_path, video_hash, video_filename) ==
  IF ~data.valid
    THEN FALSE
    ELSE data.video_path = Path("", video_filename)

\* Faulty variant: the fingerprint rule is missing.
_check_context_metadata_NoHashRule(data, video_path, video_hash, video_filename) ==
  IF ~data.valid
    THEN FALSE
    ELSE \/ data.video_path = video_path
         \/ data.video_filename = video_filename

_check_context_metadata(data, video_path, video_hash, video_filename) ==
  IF ~data.valid
    THEN FALSE
    ELSE \/ data.video_path = video_path
         \/ data.video_filename = video_filename
         \/ (video_hash.ok /\ data.video_hash = video_hash)

\* Faulty variant: the output directory is never scanned.
_context_file_exists_NoScan(ctx, video_path) == FALSE

\* Faulty variant: only the files named context-*.json are scanned, not every
\* *.json file of the directory.
_context_file_exists_OwnOnly(ctx, video_path) ==
  LET video_filename == basename(video_path)
      video_hash == _get_video_hash(video_path)
  IN \E context_file \in {f \in DOMAIN ctx : f.kind = "context"} :
       _check_context_metadata(ctx[context_file], video_path, video_hash, video_filename)

_context_file_exists(ctx, video_path) ==
  LET video_filename == basename(video_path)
      video_hash == _get_video_hash(video_path)
  IN \E context_file \in DOMAIN ctx :
       _check_context_metadata(ctx[context_file], video_path, video_hash, video_filename)


\* ---------------------------------------------------- single-item pipeline
\* What the collaborators do during one _process_video_file call: the first
\* stage that fails ("none": no stage fails) and the text the model returns
\* ("": empty, " ": whitespace only).
PVEnv ==
  [fail : {"mkdtemp", "extract", "transcribe", "build", "write", "update"},
   text : {"text"}]
    \cup [fail : {"none"}, text : {"text", " ", ""}]

\* Faulty variant: the except clause returns the output path too.
_extract_audio_from_video_AlwaysPath(video_path, env) == TRUE

\* TRUE: the path of the extracted audio is returned; FALSE: None is returned.
_extract_audio_from_video(video_path, env) ==
  Stat(video_path).exists /\ Stat(video_path).readable /\ env.fail # "extract"

_transcribe_audio(env) == IF env.fail = "transcribe" THEN "" ELSE env.text

\* Python truth value of a str.
TruthyStr(t) == t # ""

\* Faulty variant: the scratch directory is removed by a call at the end of the
\* try block, which an exception skips.
Outcome_LeakOnError(exc, ret, ctx, stages, events, wrote) ==
  [called |-> TRUE, exc |-> exc, ret |-> ret, ctx |-> ctx,
   stages |-> IF exc /\ stages[Len(stages)] = "cleanup"
                THEN SubSeq(stages, 1, Len(stages) - 1)
                ELSE stages,
   events |-> events, wrote |-> wrote]

Outcome(exc, ret, ctx, stages, events, wrote) ==
  [called |-> TRUE, exc |-> exc, ret |-> ret, ctx |-> ctx, stages |-> stages,
   events |-> events, wrote |-> wrote]

NoOutcome ==
  [called |-> FALSE, exc |-> FALSE, ret |-> FALSE, ctx |-> <<>>, stages |-> <<>>,
   events |-> <<>>, wrote |-> FALSE]

video_transcription(video_path, transcript, payload) ==
  [type |-> "video_transcription", video_path |-> video_path,
   video_filename |-> basename(video_path), transcript |-> transcript,
   output_path |-> ContextFileName(payload)]

\* The body of the try block of _process_video_file; exc: an exception left it.
\* The scratch directory is removed ("cleanup") when the with block is left.
ProcessVideoFileBody(ctx, video_path, env, now) ==
  IF env.fail = "mkdtemp"
    THEN Outcome(TRUE, FALSE, ctx, <<"mkdtemp">>, <<>>, FALSE)
  ELSE IF ~_extract_audio_from_video(video_path, env)
    THEN Outcome(FALSE, FALSE, ctx, <<"mkdtemp", "extract", "cleanup">>, <<>>, FALSE)
  ELSE LET transcript == _transcribe_audio(env) IN
  IF ~TruthyStr(transcript)
    THEN Outcome(FALSE, FALSE, ctx,
                 <<"mkdtemp", "extract", "transcribe", "cleanup">>, <<>>, FALSE)
  ELSE IF env.fail = "build"
    THEN Outcome(TRUE, FALSE, ctx,
                 <<"mkdtemp", "extract", "transcribe", "build", "cleanup">>, <<>>, FALSE)
  ELSE LET output_payload == _build_transcript_payload(transcript, video_path, now) IN
  IF env.fail = "write"
    THEN Outcome(TRUE, FALSE, ctx,
                 <<"mkdtemp", "extract", "transcribe", "build", "write", "cleanup">>,
                 <<>>, FALSE)
  ELSE LET written == _write_context_output(ctx, output_payload) IN
  IF env.fail = "update"
    THEN Outcome(TRUE, FALSE, written,
                 <<"mkdtemp", "extract", "transcribe", "build", "write", "update",
                   "cleanup">>, <<>>, TRUE)
  ELSE Outcome(FALSE, TRUE, written,
               <<"mkdtemp", "extract", "transcribe", "build", "write", "update",
                 "cleanup">>,
               <<video_transcription(video_path, transcript, output_payload)>>, TRUE)

\* Faulty variant: no except clause, an exception leaves the call.
_process_video_file_NoExcept(ctx, video_path, env, now) ==
  ProcessVideoFileBody(ctx, video_path, env, now)

\* Faulty variant: a failed extraction raises instead of returning False.
_process_video_file_ExtractRaises(ctx, video_path, env, now) ==
  LET r == ProcessVideoFileBody(ctx, video_path, env, now)
  IN IF r.stages = <<"mkdtemp", "extract", "cleanup">>
       THEN [r EXCEPT !.exc = TRUE, !.ret = FALSE]
       ELSE [r EXCEPT !.exc = FALSE, !.ret = r.ret /\ ~r.exc]

\* _process_video_file: the except clause turns every exception into False.
_process_video_file(ctx, video_path, env, now) ==
  LET r == ProcessVideoFileBody(ctx, video_path, env, now)
  IN IF r.exc THEN [r EXCEPT !.exc = FALSE, !.ret = FALSE] ELSE r

\* --------------------------------------------------------------- discovery
\* Faulty variant: reverse=True is missing, the oldest comes first.
SortOldestFirst(names) ==
  {s \in [1 .. Cardinality(names) -> {Path("", n) : n \in names}] :
     /\ \A i, j \in 1 .. Cardinality(names) : i # j => s[i] # s[j]
     /\ \A i, j \in 1 .. Cardinality(names) :
          i < j => getmtime(join(videos_dir, s[i])) <= getmtime(join(videos_dir, s[j]))}

\* list.sort(key=getmtime, reverse=True): the orders of the names that are
\* newest first (names of equal modification time in either order).
SortNewestFirst(names) ==
  {s \in [1 .. Cardinality(names) -> {Path("", n) : n \in names}] :
     /\ \A i, j \in 1 .. Cardinality(names) : i # j => s[i] # s[j]
     /\ \A i, j \in 1 .. Cardinality(names) :
          i < j => getmtime(join(videos_dir, s[i])) >= getmtime(join(videos_dir, s[j]))}

\* Faulty variant: a missing file or directory, or an unsupported extension,
\* yields an empty list instead of an exception.
_get_video_files_NoRaise ==
  IF specific_video_path # NoPath
    THEN IF ~exists(specific_video_path) \/ ~endswith_video(specific_video_path)
           THEN [exc |-> "", lists |-> {<<>>}]
           ELSE [exc |-> "", lists |-> {<<specific_video_path>>}]
  ELSE IF videos_dir = "" \/ ~DirExists(videos_dir)
    THEN [exc |-> "", lists |-> {<<>>}]
  ELSE [exc |-> "",
        lists |-> SortNewestFirst({f \in listdir(videos_dir) : endswith_video(Path("", f))})]

\* exc: the exception raised ("": none); lists: the lists that may be returned.
_get_video_files ==
  IF specific_video_path # NoPath
    THEN IF ~exists(specific_video_path)
           THEN [exc |-> "FileNotFoundError", lists |-> {}]
         ELSE IF ~endswith_video(specific_video_path)
           THEN [exc |-> "ValueError", lists |-> {}]
         ELSE [exc |-> "", lists |-> {<<specific_video_path>>}]
  ELSE IF videos_dir = ""
    THEN [exc |-> "", lists |-> {<<>>}]
  ELSE IF ~DirExists(videos_dir)
    THEN [exc |-> "FileNotFoundError", lists |-> {}]
  ELSE [exc |-> "",
        lists |-> SortNewestFirst({f \in listdir(videos_dir) : endswith_video(Path("", f))})]


\* ------------------------------------------------------- step observations
NoEnv == [fail |-> "none", text |-> ""]

\* The output directory holds a readable artifact written for this very video.
ArtifactOf(ctx, video_path) ==
  \E f \in DOMAIN ctx : ctx[f].valid /\ Resolve(ctx[f].video_path) = Resolve(video_path)

\* The matching policy of the dedup scan, as the specification words it: some
\* readable artifact stores the candidate's path, or its filename, or its
\* fingerprint when that could be computed.
HasArtifact(ctx, video_path) ==
  \E f \in DOMAIN ctx :
    /\ ctx[f].valid
    /\ \/ ctx[f].video_path = video_path
       \/ ctx[f].video_filename = video_path.name
       \/ (_get_video_hash(video_path).ok
           /\ ctx[f].video_hash = _get_video_hash(video_path))

\* What one step did: the entry point, its input, the candidate it handled,
\* whether dedup skipped it, the single-item pipeline's outcome, whether the
\* call raised to its caller, and what it sent to the status callback, the
\* subscribers and the progress callback.
\* It also notes what held when the step began: whether an artifact had ever
\* been persisted for the candidate (seen), whether an artifact of the
\* candidate was in the output directory (had_artifact); and which stage of the
\* single-item pipeline the environment made fail (fault), what the
\* transcription stage returned (transcript), and whether the step changed the
\* output directory, the counters, the model handle or the completion flag.
Ran(pv, stage) == \E i \in 1 .. Len(pv.stages) : pv.stages[i] = stage

StepRec(op, data, video, skipped, pv, env, raised, statuses, events, progress, touched) ==
  [op |-> op, data |-> data, video |-> video, skipped |-> skipped,
   pv |-> [called |-> pv.called, exc |-> pv.exc, ret |-> pv.ret, stages |-> pv.stages,
           wrote |-> pv.wrote],
   seen |-> video # NoPath /\ Resolve(video) \in persisted,
   had_artifact |-> video # NoPath /\ ArtifactOf(context, video),
   fault |-> IF Ran(pv, env.fail) THEN env.fail
             ELSE IF Ran(pv, "extract") /\ ~Ran(pv, "transcribe") THEN "extract"
             ELSE "none",
   transcript |-> IF Ran(pv, "transcribe") THEN _transcribe_audio(env) ELSE "none",
   raised |-> raised, statuses |-> statuses, events |-> events, progress |-> progress,
   touched |-> touched]

NoSummary ==
  [type |-> "none", processed_count |-> 0, skipped_count |-> 0, total_files |-> 0]

\* The record of the running fetch call, kept until the next entry-point call:
\* how it started (candidates: the paths of the discovered videos), what its
\* items did (the candidates whose extraction failed, whether the environment
\* made anything else fail), how it ended.
NewRun(n, after_fetch, candidates) ==
  [n |-> n,
   after_fetch |-> after_fetch,
   start_empty |-> context = <<>>,
   start_matched |-> \A i \in 1 .. Len(candidates) : HasArtifact(context, candidates[i]),
   candidates |-> candidates,
   total |-> Len(candidates),
   handled |-> <<>>,
   emitted |-> <<>>,
   extract_failed |-> {},
   other_failed |-> FALSE,
   writes |-> {},
   skips |-> 0,
   done |-> FALSE,
   raised |-> FALSE,
   summary |-> NoSummary]

NoRun ==
  [n |-> 0, after_fetch |-> FALSE, start_empty |-> TRUE, start_matched |-> TRUE,
   candidates |-> <<>>, total |-> 0, handled |-> <<>>, emitted |-> <<>>, extract_failed |-> {}, other_failed |-> FALSE,
   writes |-> {}, skips |-> 0, done |-> FALSE, raised |-> FALSE,
   summary |-> NoSummary]

\* ------------------------------------------------------------- model handle
\* Faulty variant: the model is loaded at every call, loaded already or not.
_load_whisper_model_Always(model, nloads) == [model |-> "model", nloads |-> nloads + 1]

\* _load_whisper_model, when whisper.load_model succeeds: the handle and the
\* number of loads after the call.
_load_whisper_model(model, nloads) ==
  IF model = "None"
    THEN [model |-> "model", nloads |-> nloads + 1]
    ELSE [model |-> model, nloads |-> nloads]

\* ------------------------------------------------------------------ inputs
Str(p) == [t |-> "str", p |-> p]

NonStr == [t |-> "int", p |-> NoPath]

Absent == [t |-> "none", p |-> NoPath]

\* Python truth value: None and "" are false.
Truthy(v) == (v.t = "str" /\ v.p # NoPath) \/ v.t = "int"

\* Python's `a or b`.
Or(a, b) == IF Truthy(a) THEN a ELSE b

DictData(a, b, c) ==
  [kind |-> "dict", path |-> a, dest_path |-> b, file_path |-> c, str |-> Absent]

StrData(p) ==
  [kind |-> "str", path |-> Absent, dest_path |-> Absent, file_path |-> Absent,
   str |-> Str(p)]

OtherData ==
  [kind |-> "other", path |-> Absent, dest_path |-> Absent, file_path |-> Absent,
   str |-> Absent]

NoData ==
  [kind |-> "none", path |-> Absent, dest_path |-> Absent, file_path |-> Absent,
   str |-> Absent]

\* The notifications the host pipeline delivers.
Inputs ==
  {OtherData, StrData(NoPath), DictData(Absent, Absent, Absent),
   DictData(NonStr, Absent, Absent),
   DictData(Absent, Str(Path("/w", "a.mp4")), Absent),
   DictData(Str(NoPath), Absent, Str(Path("/v", "b.mkv"))),
   DictData(Str(Path("/w", "x.txt")), Str(Path("/w", "r.mp4")), Absent)}
    \cup {StrData(p) : p \in {Path("/w", "r.mp4"), Path("/w", "u.mp4"),
                               Path("/w", "gone.mp4"), Path("/w", "x.txt")}}


\* The time of the running call, as datetime.now() reads it.
Now == IF pc = "loop" THEN <<nops, idx + 1>> ELSE <<nops + 1, 0>>

\* ----------------------------------------------------------- process_input
\* What the environment does during one process_input call: the status call
\* of the try block at which the status callback raises ("none": at none),
\* whether it raises in the except clause, whether whisper.load_model raises,
\* and the collaborators of the single-item pipeline.
PIEnv ==
  [st : {"loading", "processing"}, handler : BOOLEAN, load : {FALSE}, pv : {NoEnv}]
    \cup [st : {"none"}, handler : BOOLEAN, load : {TRUE}, pv : {NoEnv}]
    \cup [st : {"none"}, handler : {FALSE}, load : {FALSE}, pv : PVEnv]
    \cup [st : {"result"}, handler : BOOLEAN, load : {FALSE}, pv : PVEnv]

\* An environment in which nothing fails.
QuietEnv ==
  [st |-> "none", handler |-> FALSE, load |-> FALSE,
   pv |-> [fail |-> "none", text |-> "text"]]

PIResult(exc, statuses, model, nloads, pcount, pv, video, skipped) ==
  [exc |-> exc, raised |-> FALSE, statuses |-> statuses, model |-> model,
   nloads |-> nloads, ctx |-> IF pv.called THEN pv.ctx ELSE context,
   pcount |-> pcount, pv |-> pv, video |-> video, skipped |-> skipped]

\* The try block of process_input (the definition at the end of the class,
\* which replaces the earlier one of the same name).
ProcessInputBody(data, env) ==
  LET file_path == IF data.kind = "dict"
                     THEN Or(Or(data.path, data.dest_path), data.file_path)
                   ELSE IF data.kind = "str" THEN data.str
                   ELSE Absent
      p == file_path.p
      return(exc, statuses, video, skipped) ==
        PIResult(exc, statuses, whisper_model, loads, processed_count, NoOutcome,
                 video, skipped)
      need == whisper_model = "None"
      st1 == IF need THEN <<"loading">> ELSE <<>>
      loaded == IF need THEN _load_whisper_model(whisper_model, loads)
                ELSE [model |-> whisper_model, nloads |-> loads]
  IN
  IF ~Truthy(file_path) THEN return(FALSE, <<>>, NoPath, FALSE)
  ELSE IF file_path.t # "str" THEN return(TRUE, <<>>, NoPath, FALSE)
  ELSE IF ~endswith_video(p) THEN return(FALSE, <<>>, NoPath, FALSE)
  ELSE IF ~exists(p) THEN return(FALSE, <<>>, NoPath, FALSE)
  ELSE IF _context_file_exists(context, p) THEN return(FALSE, <<>>, p, TRUE)
  ELSE IF need /\ (env.st = "loading" \/ env.load) THEN return(TRUE, st1, p, FALSE)
  ELSE IF env.st = "processing"
    THEN PIResult(TRUE, st1 \o <<"processing">>, loaded.model, loaded.nloads, processed_count,
                  NoOutcome, p, FALSE)
  ELSE LET r == _process_video_file(context, p, env.pv, Now) IN
  IF r.exc
    THEN PIResult(TRUE, st1 \o <<"processing">>, loaded.model, loaded.nloads, processed_count,
                  r, p, FALSE)
  ELSE IF r.ret
    THEN IF env.st = "result"
           THEN PIResult(TRUE, st1 \o <<"processing", "ok">>, loaded.model, loaded.nloads,
                         processed_count, r, p, FALSE)
           ELSE PIResult(FALSE, st1 \o <<"processing", "ok">>, loaded.model, loaded.nloads,
                         processed_count + 1, r, p, FALSE)
    ELSE PIResult(env.st = "result", st1 \o <<"processing", "fail">>, loaded.model, loaded.nloads,
                  processed_count, r, p, FALSE)

\* process_input: the except clause reports an error status and returns; an
\* exception of the status callback raised there leaves the call.
process_input(data, env) ==
  LET r == ProcessInputBody(data, env)
  IN IF r.exc
       THEN [r EXCEPT !.statuses = Append(@, "error"), !.raised = env.handler]
       ELSE r

\* One process_input call.  A call that returns before its first status call
\* meets no collaborator: only the quiet environment is drawn for it.
ProcessInput ==
  /\ pc = "idle"
  /\ nops < MaxOps
  /\ \E data \in Inputs :
     \E env \in PIEnv :
     \E r \in {process_input(data, env)} :
         /\ (~r.exc /\ r.statuses = <<>>) => env = QuietEnv
         /\ whisper_model' = r.model
         /\ loads' = r.nloads
         /\ context' = r.ctx
         /\ context_dir_exists' = (context_dir_exists \/ r.pv.wrote)
         /\ processed_count' = r.pcount
         /\ persisted' = IF r.pv.wrote THEN persisted \cup {Resolve(r.video)} ELSE persisted
         /\ last' = StepRec("process_input", data, r.video, r.skipped, r.pv, env.pv,
                            r.raised, r.statuses, r.pv.events, <<>>,
                            r.model # whisper_model \/ r.pcount # processed_count
                              \/ r.ctx # context)
  /\ run' = NoRun
  /\ nops' = nops + 1
  /\ UNCHANGED <<specific_video_path, videos_dir, listing, skipped_count, total_items,
                 processed_items, fetch_completed, pc, video_files, idx, nexternal>>


\* ------------------------------------------------------------------- fetch
\* What fails first between the start of fetch and its loop: the status
\* callback at the first status call or at the next one, os.makedirs, or
\* whisper.load_model ("none": nothing).
FetchBeginEnv == {"none", "status_start", "status_next", "makedirs", "load_model"}

\* Faulty variant: the output directory is created before the configuration
\* is looked at, so every call leaves it behind.
FBResult_EagerMakedirs(exc, statuses, total, pitems, dir, model, nloads, files, loop) ==
  [exc |-> exc, statuses |-> statuses, total |-> total, pitems |-> pitems,
   dir |-> TRUE, model |-> model, nloads |-> nloads, files |-> files, loop |-> loop]

FBResult(exc, statuses, total, pitems, dir, model, nloads, files, loop) ==
  [exc |-> exc, statuses |-> statuses, total |-> total, pitems |-> pitems,
   dir |-> dir, model |-> model, nloads |-> nloads, files |-> files, loop |-> loop]

\* fetch up to its loop; files: the list _get_video_files returns.
FetchBeginBody(env, files) ==
  LET return(exc, statuses) ==
        FBResult(exc, statuses, total_items, processed_items, context_dir_exists,
                 whisper_model, loads, <<>>, FALSE)
      need == whisper_model = "None"
  IN
  IF env = "status_start" THEN return(TRUE, <<"start">>)
  ELSE IF specific_video_path = NoPath /\ videos_dir = ""
    THEN return(env = "status_next", <<"start", "noconfig">>)
  ELSE IF _get_video_files.exc # "" THEN return(TRUE, <<"start">>)
  ELSE IF Len(files) = 0 THEN return(env = "status_next", <<"start", "nofiles">>)
  ELSE IF env = "makedirs"
    THEN FBResult(TRUE, <<"start">>, Len(files), 0, context_dir_exists, whisper_model,
                  loads, files, FALSE)
  ELSE IF env = "status_next" \/ (need /\ env = "load_model")
    THEN FBResult(TRUE, <<"start", "loading">>, Len(files), 0, TRUE, whisper_model,
                  loads, files, FALSE)
  ELSE FBResult(FALSE, <<"start", "loading">>, Len(files), 0, TRUE,
                _load_whisper_model(whisper_model, loads).model,
                _load_whisper_model(whisper_model, loads).nloads, files, TRUE)

\* The statuses of a fetch step; the except clause adds the error status.
FetchStatuses(exc, statuses) == IF exc THEN Append(statuses, "error") ELSE statuses

FetchBegin ==
  /\ pc = "idle"
  /\ nops < MaxOps
  /\ \E env \in FetchBeginEnv,
        files \in (IF _get_video_files.exc = "" THEN _get_video_files.lists ELSE {<<>>}) :
     \E r \in {FetchBeginBody(env, files)} :
         /\ total_items' = r.total
         /\ processed_items' = r.pitems
         /\ context_dir_exists' = r.dir
         /\ whisper_model' = r.model
         /\ loads' = r.nloads
         /\ video_files' = IF r.loop THEN r.files ELSE <<>>
         /\ pc' = IF r.loop THEN "loop" ELSE "idle"
         /\ run' = [NewRun(nops + 1,
                           last.op \in {"fetch_begin", "fetch_end"} /\ run.done,
                           [i \in 1 .. Len(files) |->
                              IF isabs(files[i]) \/ videos_dir = "" THEN files[i]
                              ELSE join(videos_dir, files[i])])
                      EXCEPT !.done = ~r.exc /\ ~r.loop, !.raised = r.exc,
                             !.other_failed = env # "none"]
         /\ last' = StepRec("fetch_begin", NoData, NoPath, FALSE, NoOutcome, NoEnv,
                            r.exc, FetchStatuses(r.exc, r.statuses), <<>>, <<>>, FALSE)
  /\ idx' = 0
  /\ nops' = nops + 1
  /\ UNCHANGED <<specific_video_path, videos_dir, listing, context, processed_count,
                 skipped_count, fetch_completed, persisted, nexternal>>

\* What the environment does during one pass of the loop: whether the status
\* callback raises, whether the progress callback raises, and the
\* collaborators of the single-item pipeline.
FetchItemEnv ==
  [st : {TRUE}, prog : {FALSE}, pv : {NoEnv}]
    \cup [st : {FALSE}, prog : BOOLEAN, pv : PVEnv]

\* Faulty variant: a skipped candidate is not reported to the progress callback.
FIResult_NoProgressOnSkip(exc, statuses, pcount, scount, pitems, pv, video, skipped, progress) ==
  [exc |-> exc, statuses |-> statuses, ctx |-> IF pv.called THEN pv.ctx ELSE context,
   pcount |-> pcount, scount |-> scount, pitems |-> pitems, pv |-> pv,
   video |-> video, skipped |-> skipped,
   progress |-> IF skipped THEN <<>> ELSE progress]

FIResult(exc, statuses, pcount, scount, pitems, pv, video, skipped, progress) ==
  [exc |-> exc, statuses |-> statuses, ctx |-> IF pv.called THEN pv.ctx ELSE context,
   pcount |-> pcount, scount |-> scount, pitems |-> pitems, pv |-> pv,
   video |-> video, skipped |-> skipped, progress |-> progress]

\* One pass of the loop of fetch, for the candidate video_file.
FetchItemBody(video_file, env) ==
  LET video_path == IF isabs(video_file) THEN video_file ELSE join(videos_dir, video_file)
      return(exc, statuses, video) ==
        FIResult(exc, statuses, processed_count, skipped_count, processed_items,
                 NoOutcome, video, FALSE, <<>>)
      r == _process_video_file(context, video_path, env.pv, Now)
  IN
  IF ~isabs(video_file) /\ videos_dir = "" THEN return(TRUE, <<>>, NoPath)
  ELSE IF env.st THEN return(TRUE, <<"processing">>, video_path)
  ELSE IF _context_file_exists(context, video_path)
    THEN FIResult(env.prog, <<"processing">>, processed_count, skipped_count + 1,
                  processed_items + 1, NoOutcome, video_path, TRUE,
                  <<<<total_items, processed_items + 1>>>>)
  ELSE IF r.exc
    THEN FIResult(TRUE, <<"processing">>, processed_count, skipped_count,
                  processed_items, r, video_path, FALSE, <<>>)
  ELSE FIResult(env.prog, <<"processing">>,
                IF r.ret THEN processed_count + 1 ELSE processed_count,
                skipped_count, processed_items + 1, r, video_path, FALSE,
                <<<<total_items, processed_items + 1>>>>)

FetchItem ==
  /\ pc = "loop"
  /\ \E env \in FetchItemEnv :
     \E r \in {FetchItemBody(video_files[idx + 1], env)} :
         /\ context' = r.ctx
         /\ processed_count' = r.pcount
         /\ skipped_count' = r.scount
         /\ processed_items' = r.pitems
         /\ persisted' = IF r.pv.wrote THEN persisted \cup {Resolve(r.video)} ELSE persisted
         /\ pc' = IF r.exc THEN "idle"
                  ELSE IF idx + 1 = Len(video_files) THEN "finish" ELSE "loop"
         /\ idx' = IF r.exc THEN 0 ELSE idx + 1
         /\ video_files' = IF r.exc THEN <<>> ELSE video_files
         /\ run' = [run EXCEPT !.handled = IF r.video # NoPath THEN Append(@, r.video) ELSE @,
                               !.emitted = @ \o [i \in 1 .. Len(r.pv.events) |->
                                                   r.pv.events[i].video_path],
                               !.extract_failed =
                                 IF Ran(r.pv, "extract") /\ ~Ran(r.pv, "transcribe")
                                   THEN @ \cup {idx + 1} ELSE @,
                               !.other_failed =
                                 @ \/ env.st \/ (r.progress # <<>> /\ env.prog)
                                   \/ (Ran(r.pv, env.pv.fail) /\ env.pv.fail # "extract")
                                   \/ (Ran(r.pv, "transcribe")
                                       /\ _transcribe_audio(env.pv) = ""),
                               !.writes = IF r.pv.wrote THEN @ \cup {r.video} ELSE @,
                               !.skips = IF r.skipped THEN @ + 1 ELSE @,
                               !.raised = r.exc]
         /\ last' = StepRec("fetch_item", NoData, r.video, r.skipped, r.pv, env.pv,
                            r.exc, FetchStatuses(r.exc, r.statuses), r.pv.events,
                            r.progress,
                            r.ctx # context \/ r.pcount # processed_count
                              \/ r.scount # skipped_count)
  /\ UNCHANGED <<specific_video_path, videos_dir, listing, context_dir_exists,
                 whisper_model, total_items, fetch_completed, loads, nops, nexternal>>

\* What fails after the loop: the status callback at the final status call,
\* or the subscribers' update ("none": nothing).
FetchEndEnv == {"none", "status", "update"}

transcription_summary ==
  [type |-> "transcription_summary", processed_count |-> processed_count,
   skipped_count |-> skipped_count, total_files |-> Len(video_files)]

FetchEnd ==
  /\ pc = "finish"
  /\ \E env \in FetchEndEnv :
       /\ fetch_completed' = (fetch_completed \/ env # "status")
       /\ run' = [run EXCEPT !.done = env = "none", !.raised = env # "none",
                             !.other_failed = @ \/ env # "none",
                             !.summary = IF env = "none" THEN transcription_summary ELSE @]
       /\ last' = StepRec("fetch_end", NoData, NoPath, FALSE, NoOutcome, NoEnv,
                          env # "none", FetchStatuses(env # "none", <<"complete">>),
                          IF env = "none" THEN <<transcription_summary>> ELSE <<>>, <<>>,
                          ~fetch_completed /\ env # "status")
  /\ pc' = "idle"
  /\ video_files' = <<>>
  /\ idx' = 0
  /\ UNCHANGED <<specific_video_path, videos_dir, listing, context, context_dir_exists,
                 whisper_model, processed_count, skipped_count, total_items,
                 processed_items, persisted, loads, nops, nexternal>>

\* ------------------------------------------------------- external process
\* Another process drops a file into the output directory while a batch is
\* running: a file that cannot be read, or its own artifact of the candidate
\* the batch handles next.
ExternalContents ==
  {Corrupt}
    \cup {_build_transcript_payload("text", run.candidates[idx + 1], <<0, 0>>)}

ExternalWrite ==
  /\ nexternal < MaxExternal
  /\ context_dir_exists
  /\ pc = "loop"
  /\ \E c \in ExternalContents :
       context' = ([kind |-> "external", n |-> nexternal] :> c) @@ context
  /\ nexternal' = nexternal + 1
  /\ UNCHANGED <<specific_video_path, videos_dir, listing, context_dir_exists,
                 whisper_model, processed_count, skipped_count, total_items,
                 processed_items, fetch_completed, pc, video_files, idx, run, last,
                 persisted, loads, nops>>

\* ---------------------------------------------------------- specification
\* The configurations an instance is constructed with:
\* <<specific_video_path, videos_dir>>.
Configurations ==
  {<<NoPath, "">>, <<NoPath, "/v">>, <<NoPath, "/missing">>,
   <<Path("/w", "r.mp4"), "">>, <<Path("/w", "r.mp4"), "/missing">>,
   <<Path("", "a.mp4"), "">>, <<Path("", "a.mp4"), "/v">>,
   <<Path("/w", "gone.mp4"), "/v">>, <<Path("/w", "x.txt"), "">>}

Init ==
  /\ \E c \in Configurations : specific_video_path = c[1] /\ videos_dir = c[2]
  /\ listing \in SUBSET VideosDirNames
  /\ (specific_video_path # NoPath \/ videos_dir # "/v") => listing = VideosDirNames
  /\ context = <<>>
  /\ context_dir_exists = FALSE
  /\ whisper_model = "None"
  /\ processed_count = 0
  /\ skipped_count = 0
  /\ total_items = 0
  /\ processed_items = 0
  /\ fetch_completed = FALSE
  /\ pc = "idle"
  /\ video_files = <<>>
  /\ idx = 0
  /\ run = NoRun
  /\ last = StepRec("init", NoData, NoPath, FALSE, NoOutcome, NoEnv, FALSE, <<>>, <<>>,
                    <<>>, FALSE)
  /\ persisted = {}
  /\ loads = 0
  /\ nops = 0
  /\ nexternal = 0

Next == FetchBegin \/ FetchItem \/ FetchEnd \/ ProcessInput \/ ExternalWrite

Spec == Init /\ [][Next]_vars


\* ------------------------------------------- specification of the fingerprint
\* The contents of the files that are fingerprinted: blocks of one MiB, each
\* one of two values.
Contents == UNION {[1 .. n -> {0, 1}] : n \in 0 .. MaxBlocks}

\* Two files are drawn; last holds them, then their fingerprints.
HashInit ==
  /\ \E a, b \in Contents : last = [op |-> "hash_input", a |-> a, b |-> b]
  /\ specific_video_path = NoPath
  /\ videos_dir = ""
  /\ listing = VideosDirNames
  /\ context = <<>>
  /\ context_dir_exists = FALSE
  /\ whisper_model = "None"
  /\ processed_count = 0
  /\ skipped_count = 0
  /\ total_items = 0
  /\ processed_items = 0
  /\ fetch_completed = FALSE
  /\ pc = "idle"
  /\ video_files = <<>>
  /\ idx = 0
  /\ run = NoRun
  /\ persisted = {}
  /\ loads = 0
  /\ nops = 0
  /\ nexternal = 0

\* _get_video_hash is applied to both files, and to the first one again.
HashFiles ==
  /\ last.op = "hash_input"
  /\ last' = [op |-> "hashed", a |-> last.a, b |-> last.b,
               hash_a |-> md5(HashedData(last.a)),
               hash_b |-> md5(HashedData(last.b)),
               hash_a_again |-> md5(HashedData(last.a))]
  /\ UNCHANGED <<specific_video_path, videos_dir, listing, context, context_dir_exists,
                 whisper_model, processed_count, skipped_count, total_items,
                 processed_items, fetch_completed, pc, video_files, idx, run,
                 persisted, loads, nops, nexternal>>

HashNext == HashFiles

HashSpec == HashInit /\ [][HashNext]_vars

\* ================================================================== claims
FetchReturned == pc = "idle" /\ run.done /\ last.op \in {"fetch_begin", "fetch_end"}

\* C1 (as stated): a fetch that directly follows a completed fetch on the same
\* directories writes no artifact, and dedup skips every one of its candidates.
C1_Idempotence_AsStated ==
  run.after_fetch => /\ run.writes = {}
                     /\ (run.done => run.skips = run.total)

\* C1 (amended): a fetch that directly follows a completed fetch writes no
\* artifact and skips every candidate, provided every candidate has a matching
\* artifact in the output directory when this second fetch starts.
C1_Idempotence ==
  (run.after_fetch /\ run.start_matched)
    => /\ run.writes = {}
       /\ (run.done => run.skips = run.total)

C1_Witness ==
  /\ FetchReturned
  /\ run.after_fetch
  /\ run.start_matched
  /\ run.total >= 2
  /\ run.skips = run.total

\* C2 (as stated): a video for which an artifact was persisted is never passed
\* to the extraction stage again, by fetch or by process_input.
C2_NeverReprocessed_AsStated == Ran(last.pv, "extract") => ~last.seen

\* C2 (amended): a video whose artifact is in the output directory (persisted
\* and not replaced since) is never passed to the extraction stage, by fetch or
\* by process_input.
C2_NeverReprocessed == Ran(last.pv, "extract") => ~last.had_artifact

C2_Witness ==
  /\ last.op = "process_input"
  /\ last.skipped
  /\ last.seen
  /\ last.had_artifact
  /\ ~last.pv.called

\* C3: the shape of the batch the claim is about: no artifact when it started,
\* extraction failed for exactly one candidate, nothing else failed.
C3_OneExtractionFails ==
  /\ run.n > 0
  /\ run.start_empty
  /\ Cardinality(run.extract_failed) = 1
  /\ ~run.other_failed

C3_Conclusion ==
  /\ ~run.raised
  /\ FetchReturned =>
       /\ Len(run.handled) = run.total
       /\ \A i \in 1 .. run.total :
            i \notin run.extract_failed => HasArtifact(context, run.candidates[i])
       /\ run.summary.type = "transcription_summary"
       /\ run.summary.processed_count + run.summary.skipped_count = run.total - 1

\* C3 (as stated): when exactly candidate k's extraction fails in a batch that
\* started without artifacts, the batch does not raise, handles every candidate,
\* leaves an artifact for every candidate but k, and its summary counts N - 1.
C3_PartialFailure_AsStated == C3_OneExtractionFails => C3_Conclusion

DistinctRecordingTimes(candidates) ==
  \A i, j \in 1 .. Len(candidates) :
    i # j => video_recording_time(getmtime(candidates[i])).s
               # video_recording_time(getmtime(candidates[j])).s

\* C3 (amended): the same, for candidates whose recording times fall in pairwise
\* distinct seconds, so that their artifact file names differ.
C3_PartialFailure ==
  (C3_OneExtractionFails /\ DistinctRecordingTimes(run.candidates)) => C3_Conclusion

C3_Witness ==
  /\ C3_OneExtractionFails
  /\ DistinctRecordingTimes(run.candidates)
  /\ FetchReturned
  /\ run.total >= 2
  /\ \E k \in run.extract_failed : k < run.total

StrictlyNewestFirst(paths) ==
  \A i, j \in 1 .. Len(paths) : i < j => getmtime(paths[i]) > getmtime(paths[j])

DistinctModificationTimes(candidates) ==
  \A i, j \in 1 .. Len(candidates) :
    i # j => getmtime(candidates[i]) # getmtime(candidates[j])

\* C4: in a batch over a directory whose candidates have distinct modification
\* times, the candidates are handled, and their video_transcription events are
\* emitted, in strictly descending order of modification time.
C4_NewestFirst ==
  (run.n > 0 /\ specific_video_path = NoPath /\ DistinctModificationTimes(run.candidates))
    => /\ StrictlyNewestFirst(run.handled)
       /\ StrictlyNewestFirst(run.emitted)
       /\ run.handled = SubSeq(run.candidates, 1, Len(run.handled))

C4_Witness ==
  /\ FetchReturned
  /\ specific_video_path = NoPath
  /\ Len(run.handled) >= 3
  /\ Len(run.emitted) >= 2

\* C5 (as stated): no step removes or changes a file of the output directory.
C5_ArtifactsKept_AsStated ==
  [][\A f \in DOMAIN context : f \in DOMAIN context' /\ context'[f] = context[f]]_vars

\* C5 (amended): no step removes a file of the output directory, and a step
\* changes one only by storing, under the same recording-time file name, the
\* artifact of another video recorded in the same second: one whose path,
\* filename and fingerprint all differ from the stored ones.
C5_ArtifactsKept ==
  [][\A f \in DOMAIN context :
       /\ f \in DOMAIN context'
       /\ context'[f] # context[f] =>
            /\ context[f].valid /\ context'[f].valid
            /\ ContextFileName(context'[f]) = f
            /\ video_recording_time(context'[f].video_mtime).s
                 = video_recording_time(context[f].video_mtime).s
            /\ context'[f].video_path # context[f].video_path
            /\ context'[f].video_filename # context[f].video_filename
            /\ context'[f].video_hash # context[f].video_hash]_vars

C5_Witness ==
  /\ last.pv.wrote
  /\ Cardinality({f \in DOMAIN context : f.kind = "context"}) >= 2
  /\ \E f \in DOMAIN context : context[f].transcription_time # Now /\ f.kind = "context"

\* C6: whenever the transcription stage returns an empty or blank text, or
\* fails, _process_video_file returns False, writes no artifact, emits no
\* video_transcription event and does not raise.
C6_EmptyTranscript ==
  (last.pv.called /\ last.transcript \in {"", " "})
    => /\ ~last.pv.ret
       /\ ~last.pv.wrote
       /\ last.events = <<>>
       /\ ~last.pv.exc

\* C7: _process_video_file never lets an exception reach its caller; when
\* extraction, transcription, payload building, persistence or the subscriber
\* notification fails it returns False, and it always returns a boolean.
C7_NeverRaises ==
  last.pv.called
    => /\ ~last.pv.exc
       /\ last.pv.ret \in BOOLEAN
       /\ last.fault # "none" => ~last.pv.ret

C7_Witness ==
  /\ last.pv.called
  /\ last.fault = "write"
  /\ ~last.pv.ret
  /\ Ran(last.pv, "cleanup")

\* The path a notification holds: the string itself, or the first string
\* stored under path, dest_path, file_path (NoPath: it holds none).
NotifiedPath(data) ==
  IF data.kind = "str" THEN data.str.p
  ELSE IF data.kind # "dict" THEN NoPath
  ELSE IF data.path.t = "str" /\ data.path.p # NoPath THEN data.path.p
  ELSE IF data.dest_path.t = "str" /\ data.dest_path.p # NoPath THEN data.dest_path.p
  ELSE IF data.file_path.t = "str" THEN data.file_path.p
  ELSE NoPath

InvalidNotification(data) ==
  \/ NotifiedPath(data) = NoPath
  \/ ~endswith_video(NotifiedPath(data))
  \/ ~exists(NotifiedPath(data))

\* C8: a process_input call whose data holds no path, or a path that is not
\* .mp4/.mkv, or a path that does not exist, writes no artifact, leaves the
\* counters and the model handle unchanged, and emits no event and no status.
C8_InvalidIsSilent ==
  (last.op = "process_input" /\ InvalidNotification(last.data))
    => /\ ~last.touched
       /\ ~last.pv.wrote
       /\ last.events = <<>>
       /\ last.statuses = <<>>

\* C9: process_input always returns normally to the host pipeline, whatever
\* its input and whichever of dedup, model loading, the single-item pipeline
\* or the status callback fails.
C9_ProcessInputNeverRaises == last.op = "process_input" => ~last.raised

\* What a fetch call that meets a configuration error does: it reports a final
\* error status and raises, with no artifact written, no event emitted, the run
\* not marked complete and the counters unchanged.
FetchFailsFatally ==
  /\ last'.raised
  /\ last'.statuses # <<>>
  /\ last'.statuses[Len(last'.statuses)] = "error"
  /\ last'.events = <<>>
  /\ pc' = "idle"
  /\ context' = context
  /\ fetch_completed' = fetch_completed
  /\ processed_count' = processed_count
  /\ skipped_count' = skipped_count

FetchCalled == pc = "idle" /\ nops' = nops + 1 /\ last'.op = "fetch_begin"

\* C10 (as stated): a fetch fails fatally whenever the configured specific
\* file does not exist, or the configured source directory does not exist, or
\* the specific file's extension is unsupported.
C10_ConfigErrorsFatal_AsStated ==
  [][(/\ FetchCalled
      /\ \/ (specific_video_path # NoPath /\ ~exists(specific_video_path))
         \/ (videos_dir # "" /\ ~DirExists(videos_dir))
         \/ (specific_video_path # NoPath /\ ~endswith_video(specific_video_path)))
       => FetchFailsFatally]_vars

\* The configuration errors of the source fetch reads: the specific file when
\* one is configured, the source directory otherwise.
ConfigurationError ==
  IF specific_video_path # NoPath
    THEN ~exists(specific_video_path) \/ ~endswith_video(specific_video_path)
    ELSE videos_dir # "" /\ ~DirExists(videos_dir)

\* C10 (amended): a fetch fails fatally whenever the configured specific file
\* does not exist or has an unsupported extension, or, with no specific file
\* configured, the configured source directory does not exist.
C10_ConfigErrorsFatal == [][(FetchCalled /\ ConfigurationError) => FetchFailsFatally]_vars

C10_Witness ==
  /\ ConfigurationError
  /\ specific_video_path = NoPath
  /\ last.op = "fetch_begin"
  /\ last.raised
  /\ last.statuses = <<"start", "error">>
  /\ nops = 2

NoSourceConfigured == specific_video_path = NoPath /\ videos_dir = ""

\* C11: with neither a source directory nor a specific video configured, a
\* fetch call leaves the progress counters, processed_count, skipped_count, the
\* model handle, the output directory and the completion flag as they were,
\* emits no event, and returns without raising unless the status callback fails.
C11_NoSourceIsNoOp ==
  [][(FetchCalled /\ NoSourceConfigured)
       => /\ total_items' = total_items
          /\ processed_items' = processed_items
          /\ processed_count' = processed_count
          /\ skipped_count' = skipped_count
          /\ whisper_model' = whisper_model
          /\ loads' = loads
          /\ context_dir_exists' = context_dir_exists
          /\ context' = context
          /\ fetch_completed' = fetch_completed
          /\ last'.events = <<>>
          /\ pc' = "idle"
          /\ ~run'.other_failed => ~last'.raised]_vars

C11_Witness ==
  /\ NoSourceConfigured
  /\ last.op = "fetch_begin"
  /\ ~last.raised
  /\ last.statuses = <<"start", "noconfig">>
  /\ ~context_dir_exists
  /\ whisper_model = "None"

\* C12: a fetch with a configured, existing source that returns without
\* raising has emitted one transcription_summary event, as the last event of
\* the run, with total_files the number of discovered candidates, and has
\* marked the run complete; also when no candidate was discovered.
C12_SummaryAlways ==
  (FetchReturned /\ ~NoSourceConfigured)
    => /\ last.events = <<run.summary>>
       /\ run.summary.type = "transcription_summary"
       /\ run.summary.total_files = run.total
       /\ fetch_completed

\* C13: the summary of a fetch counts the items of that fetch only:
\* processed_count + skipped_count is at most total_files, whatever the
\* instance did before.
C13_CountersPerRun ==
  run.summary.type = "transcription_summary"
    => run.summary.processed_count + run.summary.skipped_count <= run.summary.total_files

\* C14: the transcription model is loaded at most once in the life of an
\* instance: after one successful load no call loads it again, and the handle
\* stays the one that load returned.
C14_ModelLoadedOnce ==
  /\ loads <= 1
  /\ whisper_model = "model" <=> loads = 1

C14_Witness ==
  /\ run.after_fetch
  /\ pc = "loop"
  /\ loads = 1
  /\ whisper_model = "model"

Count(stages, stage) == Cardinality({i \in 1 .. Len(stages) : stages[i] = stage})

\* C15: every _process_video_file call creates one scratch directory, as its
\* first step, and removes it as its last step on every exit path (success,
\* extraction failure, empty transcript, persistence failure, exception), so
\* none is left when the next candidate starts or the batch ends; a call whose
\* creation of the directory fails leaves none either.
C15_ScratchRemoved ==
  last.pv.called
    => /\ last.pv.stages[1] = "mkdtemp"
       /\ Count(last.pv.stages, "mkdtemp") = 1
       /\ IF last.fault = "mkdtemp"
            THEN last.pv.stages = <<"mkdtemp">>
            ELSE /\ last.pv.stages[Len(last.pv.stages)] = "cleanup"
                 /\ Count(last.pv.stages, "cleanup") = 1

C15_Witness ==
  /\ last.op = "fetch_item"
  /\ last.fault = "write"
  /\ Ran(last.pv, "cleanup")
  /\ pc = "loop"

\* C16: the dedup check of a candidate reads the output directory as it is
\* when the candidate's turn comes: a candidate for which a matching artifact
\* is there by then, whoever wrote it and however late, is not transcribed and
\* nothing is written; it is skipped, unless the call ends at a failing
\* callback.
C16_FreshScan ==
  [][(/\ pc = "loop"
      /\ nexternal' = nexternal
      /\ HasArtifact(context, run.candidates[idx + 1]))
       => /\ ~last'.pv.called
          /\ context' = context
          /\ last'.skipped \/ last'.raised]_vars

C16_Witness ==
  /\ last.op = "fetch_item"
  /\ last.skipped
  /\ ~last.raised
  /\ run.start_empty
  /\ run.writes = {}
  /\ \E f \in DOMAIN context : f.kind = "external" /\ context[f].valid

\* A step that made the dedup check for the candidate last'.video.
DedupChecked ==
  \/ /\ pc = "idle"
     /\ last'.op = "process_input"
     /\ nops' = nops + 1
     /\ last'.video # NoPath
  \/ /\ pc = "loop"
     /\ nexternal' = nexternal
     /\ last'.pv.called \/ last'.progress # <<>>

\* C17: the dedup check answers "already processed" exactly when some readable
\* artifact of the output directory stores the candidate's path, or its
\* filename, or its fingerprint when that could be computed; an unreadable
\* artifact is no match.  A processed video that was moved and renamed with its
\* content unchanged is therefore still skipped.
C17_DedupRule ==
  [][DedupChecked => (last'.skipped <=> HasArtifact(context, last'.video))]_vars

C17_Witness ==
  /\ last.skipped
  /\ last.video = Path("/v", "a.mp4")
  /\ \E f \in DOMAIN context : ~context[f].valid
  /\ \A f \in DOMAIN context :
       context[f].valid => /\ context[f].video_path # last.video
                           /\ context[f].video_filename # "a.mp4"

StageOrder == <<"mkdtemp", "extract", "transcribe", "build", "write", "update">>

\* The stages without the removal of the scratch directory.
Work(stages) == SelectSeq(stages, LAMBDA st : st # "cleanup")

\* C18: the single-item pipeline runs extract, transcribe, persist, emit in
\* that order and stops at the first that fails: transcription is not attempted
\* when extraction failed, an artifact is written only after a non-empty
\* transcript was obtained, and the video_transcription event is emitted only
\* after the artifact was written.
C18_StageOrder ==
  last.pv.called
    => /\ Work(last.pv.stages) = SubSeq(StageOrder, 1, Len(Work(last.pv.stages)))
       /\ Ran(last.pv, "transcribe") => last.fault # "extract"
       /\ last.pv.wrote => (Ran(last.pv, "write") /\ last.transcript \notin {"none", ""})
       /\ last.events # <<>> => (last.pv.wrote /\ Ran(last.pv, "update"))

C18_Witness ==
  /\ last.pv.called
  /\ last.fault = "extract"
  /\ last.pv.stages = <<"mkdtemp", "extract", "cleanup">>
  /\ ~last.pv.wrote
  /\ last.events = <<>>

\* The positions of a file's first and last MiB.
Ends(content) == (1 .. MiB) \cup ((Len(content) - MiB + 1) .. Len(content))

\* C19: the fingerprint of a file of at most 2 MiB is the hash of its whole
\* content, that of a larger file the hash of its first MiB followed by its
\* last MiB; the same content always has the same fingerprint, and two files
\* of more than 2 MiB that differ only between the first and the last MiB have
\* the same fingerprint.
C19_Fingerprint ==
  last.op = "hashed"
    => /\ Len(last.a) <= 2 * MiB => last.hash_a = md5(last.a)
       /\ Len(last.a) > 2 * MiB
            => last.hash_a = md5([i \in 1 .. 2 * MiB |->
                                   IF i <= MiB THEN last.a[i]
                                   ELSE last.a[Len(last.a) - 2 * MiB + i]])
       /\ last.hash_a_again = last.hash_a
       /\ last.a = last.b => last.hash_a = last.hash_b
       /\ (/\ Len(last.a) = Len(last.b)
           /\ Len(last.a) > 2 * MiB
           /\ \A i \in Ends(last.a) : last.a[i] = last.b[i])
            => last.hash_a = last.hash_b

C19_Witness ==
  /\ last.op = "hashed"
  /\ Len(last.a) = 4
  /\ Len(last.b) = 4
  /\ last.a # last.b
  /\ last.hash_a = last.hash_b

\* C20: in a fetch, the progress callback is invoked once after every
\* candidate, skipped, transcribed or failed, with the number of candidates as
\* totalToProcess and the number of candidates handled so far as
\* totalProcessed, which never exceeds totalToProcess and equals it when the
\* summary is emitted.
C20_Progress ==
  /\ (last.op = "fetch_item" /\ (last.skipped \/ last.pv.called))
       => /\ last.progress = <<<<run.total, Len(run.handled)>>>>
          /\ processed_items = Len(run.handled)
          /\ Len(run.handled) <= run.total
  /\ (FetchReturned /\ run.summary.type = "transcription_summary")
       => /\ processed_items = run.total
          /\ total_items = run.total

C20_Witness ==
  /\ FetchReturned
  /\ run.total = 3
  /\ run.skips >= 1
  /\ run.extract_failed # {}
  /\ run.writes # {}
  /\ processed_items = 3

\* C21: _process_video_file returns True exactly when the call wrote an
\* artifact, also when notifying the subscribers fails after the write; so
\* that each candidate adds one to processed_count exactly when its artifact
\* was written.
C21_TrueIffWritten == last.pv.called => (last.pv.ret <=> last.pv.wrote)

====
